---- MODULE Spec2Model ----
(***************************************************************************)
(* Job orchestration of src/Mobile/app.py: the job store `jobs`, the       *)
(* dispatcher start_download, the worker thread download_task with its     *)
(* progress hook, the polls get_status and download_file, the cleanup      *)
(* thread, and the format list of get_formats.                             *)
(*                                                                         *)
(* Strings that the code takes apart (percentage strings, paths) are       *)
(* sequences of one-character strings; identifiers that the code never     *)
(* looks into (a uuid, an extension) are single tokens.  Python's None is  *)
(* the one-token sequence None.  Progress values are kept in tenths of a   *)
(* percent, the precision of the collaborator's "%.1f%%" percentages.      *)
(***************************************************************************)
EXTENDS Integers, Sequences, FiniteSets, TLC

\* ------------------------------------------------------------- bounds
MaxJobs == 2
MaxEvents == 2
MaxTicks == 1
MaxFormats == 3
TickSeconds == 3601

\* ---------------------------------------------------------- constants
RETENTION == 3600
HUNDRED == 100

\* a whole percentage in the model's unit, tenths of a percent
Pct(n) == n * 10

\* ------------------------------------------------------ pure helpers
None == <<"<None>">>

Truthy(x) == x # None /\ x # <<>>

Uuid == <<"uuid-1", "uuid-2", "uuid-3", "uuid-4">>

JobIds == {Uuid[i] : i \in 1..MaxJobs}

Digits == {"0", "1", "2", "3", "4", "5", "6", "7", "8", "9"}

DigitVal(c) ==
    CASE c = "0" -> 0 [] c = "1" -> 1 [] c = "2" -> 2 [] c = "3" -> 3
      [] c = "4" -> 4 [] c = "5" -> 5 [] c = "6" -> 6 [] c = "7" -> 7
      [] c = "8" -> 8 [] c = "9" -> 9

\* str.replace(old, ''): every occurrence of the character removed
Replace(s, old) == SelectSeq(s, LAMBDA c : c # old)

RECURSIVE LStrip(_)
LStrip(s) == IF s # <<>> /\ Head(s) = " " THEN LStrip(Tail(s)) ELSE s

RECURSIVE RStrip(_)
RStrip(s) ==
    IF s # <<>> /\ s[Len(s)] = " " THEN RStrip(SubSeq(s, 1, Len(s) - 1)) ELSE s

RECURSIVE IntVal(_)
IntVal(s) == IF s = <<>> THEN 0 ELSE IntVal(SubSeq(s, 1, Len(s) - 1)) * 10 + DigitVal(s[Len(s)])

AllDigits(s) == \A i \in 1..Len(s) : s[i] \in Digits

DotAt(s) == IF \E i \in 1..Len(s) : s[i] = "." THEN CHOOSE i \in 1..Len(s) : s[i] = "." ELSE 0

\* float(p) on a decimal literal: surrounding blanks stripped, an optional
\* sign, digits with at most one point and at least one digit.  ok = FALSE
\* is the ValueError; val is the value in tenths (the first fractional digit).
ParseFloat(p) ==
    LET t    == RStrip(LStrip(p))
        neg  == t # <<>> /\ Head(t) = "-"
        body == IF t # <<>> /\ Head(t) \in {"-", "+"} THEN Tail(t) ELSE t
        d    == DotAt(body)
        ip   == IF d = 0 THEN body ELSE SubSeq(body, 1, d - 1)
        fp   == IF d = 0 THEN <<>> ELSE SubSeq(body, d + 1, Len(body))
        ok   == AllDigits(ip) /\ AllDigits(fp) /\ Len(ip) + Len(fp) > 0
        mag  == IF ok THEN Pct(IntVal(ip)) + (IF fp = <<>> THEN 0 ELSE DigitVal(fp[1]))
                ELSE 0
    IN  [ok |-> ok, val |-> IF neg THEN 0 - mag ELSE mag]

LastIndex(s, c) ==
    IF \E i \in 1..Len(s) : s[i] = c
    THEN CHOOSE i \in 1..Len(s) : s[i] = c /\ \A k \in (i + 1)..Len(s) : s[k] # c
    ELSE 0

\* os.path.basename
basename(path) == SubSeq(path, LastIndex(path, "/") + 1, Len(path))

\* os.path.splitext(path)[0]: the path up to the last point of its last
\* component (a point that starts the component is no extension)
splitext0(path) ==
    LET sep == LastIndex(path, "/")
        dot == LastIndex(path, ".")
    IN  IF dot > sep + 1 THEN SubSeq(path, 1, dot - 1) ELSE path

DOWNLOAD_FOLDER == <<"d", "l">>

\* os.path.join(DOWNLOAD_FOLDER, f'{job_id}_%(title)s.%(ext)s') filled in
\* by ydl.prepare_filename(info)
prepare_filename(job_id, info) ==
    DOWNLOAD_FOLDER \o <<"/", job_id, "_">> \o info.title \o <<".", info.ext>>

\* str(n) of a non-negative integer
RECURSIVE ToStr(_)
ToStr(n) ==
    LET c == CHOOSE c \in Digits : DigitVal(c) = n % 10
    IN  IF n < 10 THEN <<c>> ELSE ToStr(n \div 10) \o <<c>>

RECURSIVE Sum(_, _)
Sum(f, S) == IF S = {} THEN 0
             ELSE LET x == CHOOSE x \in S : TRUE IN f[x] + Sum(f, S \ {x})

\* ------------------------------------------------------------ inputs
MISSING == "<missing>"

\* request.json of POST /api/download: an audio job, a video job, an empty
\* url, no url at all
Bodies ==
    { [url |-> "https://example/video", type |-> "audio", format_id |-> MISSING],
      [url |-> "https://example/video", type |-> "video", format_id |-> "137"],
      [url |-> "", type |-> "video", format_id |-> "137"],
      [url |-> MISSING, type |-> "audio", format_id |-> MISSING] }

\* _percent_str values of a 'downloading' event: a percentage below the
\* total, an unknown total, an overshoot of an estimated total
PercentStrs ==
    { <<" ", "5", "0", ".", "0", "%">>,
      <<"N", "/", "A">>,
      <<"1", "5", "0", ".", "0", "%">> }

Titles == { <<"a", ".", "b">> }

\* the formats the collaborator lists for a url: 720p with audio, 720p
\* video only, 1080p video only, an audio track, 144p, 360p with audio.
\* height 0 stands for a height that is None or missing.
FormatPool ==
    { [format_id |-> "22", height |-> 720, vcodec |-> "avc1", acodec |-> "mp4a",
       ext |-> "mp4"],
      [format_id |-> "247", height |-> 720, vcodec |-> "vp9", acodec |-> "none",
       ext |-> "webm"],
      [format_id |-> "137", height |-> 1080, vcodec |-> "avc1", acodec |-> "none",
       ext |-> "mp4"],
      [format_id |-> "140", height |-> 0, vcodec |-> "none", acodec |-> "mp4a",
       ext |-> "m4a"],
      [format_id |-> "160", height |-> 144, vcodec |-> "avc1", acodec |-> "none",
       ext |-> "mp4"],
      [format_id |-> "18", height |-> 360, vcodec |-> "avc1", acodec |-> "mp4a",
       ext |-> "mp4"] }

FormatLists == UNION {[1..n -> FormatPool] : n \in 0..MaxFormats}

Exts == {"webm"}

\* ------------------------------------------------------------- state
VARIABLES
    jobs,       \* the dict jobs: job id -> record, NoJob where the key is absent
    order,      \* the dict's keys in insertion order
    now,        \* time.time()
    files,      \* the paths that exist under DOWNLOAD_FOLDER
    req,        \* the start_download request being handled, or its response
    nextId,     \* how many uuids have been drawn
    wpc,        \* each download_task thread's position
    args,       \* each download_task thread's format_opts
    nEvents,    \* progress events the hook has recorded, per job
    raised,     \* exceptions raised inside download_task's try block, per job
    calls,      \* extract_info invocations, per job
    info,       \* extract_info's result in each download_task thread
    writes,     \* the statuses update_job_status has written, per job
    spc,        \* the cleanup thread's position
    s_now,      \* cleanup's local now
    snap,       \* cleanup's list(jobs.keys()), the part not yet visited
    staleAtStart,   \* <<job id, filename>> of the records stale when the cycle began
    watch,      \* the first terminal record a get_status returned, and the
                \* latest response for that job since
    dl,         \* the latest response of download_file
    cookies,        \* os.path.exists('cookies.txt')
    info_formats,   \* info['formats'] of the url a get_formats request names
    formats_resp,   \* the latest response of get_formats
    ydl_opts        \* the ydl_opts a download_task has built

vars == <<jobs, order, now, files, req, nextId, wpc, args, nEvents, raised,
          calls, info, writes, spc, s_now, snap, staleAtStart, watch, dl,
          cookies, info_formats, formats_resp, ydl_opts>>

dispatcherVars == <<req, nextId>>
workerVars == <<wpc, args, nEvents, raised, calls, info>>
sweeperVars == <<spc, s_now, snap, staleAtStart>>
pollVars == <<watch, dl>>
configVars == <<cookies, info_formats, formats_resp, ydl_opts>>

NoJob == [status |-> "<absent>", text |-> None, progress |-> 0, filename |-> None,
          timestamp |-> 0]

NoArgs == [format_id |-> <<>>, is_audio |-> FALSE, postprocessors |-> <<>>]

NoInfo == [title |-> <<>>, ext |-> ""]

\* no request in hand; url, code and job_id are those of the last request
\* and its response (code 0: none yet)
IdleReq == [pc |-> "idle", url |-> MISSING, job_id |-> "", format_opts |-> NoArgs,
            code |-> 0]

Terminal == {"completed", "error"}

\* no get_formats response yet
NoFormats == [code |-> 0, formats |-> <<>>]

\* no ydl_opts built yet
NoOpts == [job_id |-> ""]

\* no download_file response yet
NoResponse == [ready |-> FALSE, code |-> 0, path |-> None]

StoreInit ==
    /\ jobs = [j \in JobIds |-> NoJob]
    /\ order = <<>>
    /\ now = 0
    /\ files = {}
    /\ req = IdleReq
    /\ nextId = 0
    /\ wpc = [j \in JobIds |-> "none"]
    /\ args = [j \in JobIds |-> NoArgs]
    /\ nEvents = [j \in JobIds |-> 0]
    /\ raised = [j \in JobIds |-> 0]
    /\ calls = [j \in JobIds |-> 0]
    /\ info = [j \in JobIds |-> NoInfo]
    /\ writes = [j \in JobIds |-> <<>>]
    /\ spc = "sleep"
    /\ s_now = 0
    /\ snap = <<>>
    /\ staleAtStart = {}
    /\ watch = [job_id |-> "", first |-> NoJob, last |-> NoJob]
    /\ dl = NoResponse

Init ==
    /\ StoreInit
    /\ cookies = FALSE
    /\ info_formats = <<>>
    /\ formats_resp = NoFormats
    /\ ydl_opts = NoOpts

\* a cookies.txt that is or is not there, and the formats of the url asked for
FunctionInit ==
    /\ StoreInit
    /\ cookies \in BOOLEAN
    /\ info_formats \in FormatLists
    /\ formats_resp = NoFormats
    /\ ydl_opts = NoOpts

\* --------------------------------------------------------- job store
\* update_job_status: the record is replaced whole and stamped with the
\* current time; a new key goes to the end of the dict
update_job_status(job_id, status, text, progress, filename) ==
    /\ jobs' = [jobs EXCEPT ![job_id] =
                  [status |-> status, text |-> text, progress |-> progress,
                   filename |-> filename, timestamp |-> now]]
    /\ order' = IF jobs[job_id] = NoJob THEN Append(order, job_id) ELSE order
    /\ writes' = [writes EXCEPT ![job_id] = Append(@, status)]

jobsUnchanged == UNCHANGED <<jobs, order, writes>>

\* -------------------------------------------------------- dispatcher
\* `not url`: None and '' are both false
NotUrl(url) == url = MISSING \/ url = ""

\* faulty variant: the url is validated after the uuid and the 'starting' record
StartDownloadReject_AfterCreate(body) ==
    /\ req.pc = "idle"
    /\ nextId < MaxJobs
    /\ NotUrl(body.url)
    /\ nextId' = nextId + 1
    /\ update_job_status(Uuid[nextId + 1], "starting", <<"Starting process...">>, 0, None)
    /\ req' = [IdleReq EXCEPT !.url = body.url, !.code = 400]
    /\ UNCHANGED <<now, files>>
    /\ UNCHANGED <<workerVars, sweeperVars, pollVars, configVars>>

\* start_download, the 400 of an empty or missing url
StartDownloadReject(body) ==
    /\ req.pc = "idle"
    /\ nextId < MaxJobs
    /\ NotUrl(body.url)
    /\ req' = [IdleReq EXCEPT !.url = body.url, !.code = 400]
    /\ UNCHANGED <<nextId, now, files>>
    /\ UNCHANGED <<workerVars, sweeperVars, pollVars, configVars>>
    /\ jobsUnchanged

\* the format_opts start_download derives from type and format_id
FormatOpts(type, format_id) ==
    IF type = "audio"
    THEN [format_id |-> <<"bestaudio/best">>, is_audio |-> TRUE,
          postprocessors |-> <<"FFmpegExtractAudio", "mp3", "192">>]
    ELSE IF format_id # MISSING /\ format_id # ""
         THEN [format_id |-> <<format_id, "+bestaudio/best">>, is_audio |-> FALSE,
               postprocessors |-> <<>>]
         ELSE [format_id |-> <<"bestvideo+bestaudio/best">>, is_audio |-> FALSE,
               postprocessors |-> <<>>]

\* uuid.uuid4(): an id never drawn before
uuid4 == Uuid[nextId + 1]

\* faulty variant: the first record is left to the worker thread
StartDownloadCreate_NoWrite(body) ==
    /\ req.pc = "idle"
    /\ ~NotUrl(body.url)
    /\ nextId < MaxJobs
    /\ nextId' = nextId + 1
    /\ req' = [IdleReq EXCEPT !.pc = "created", !.url = body.url, !.job_id = uuid4,
                              !.format_opts = FormatOpts(body.type, body.format_id)]
    /\ UNCHANGED <<now, files>>
    /\ UNCHANGED <<workerVars, sweeperVars, pollVars, configVars>>
    /\ jobsUnchanged

\* start_download up to the thread's creation: the uuid, the 'starting'
\* record, the format options
StartDownloadCreate(body) ==
    /\ req.pc = "idle"
    /\ ~NotUrl(body.url)
    /\ nextId < MaxJobs
    /\ nextId' = nextId + 1
    /\ update_job_status(uuid4, "starting", <<"Starting process...">>, 0, None)
    /\ req' = [IdleReq EXCEPT !.pc = "created", !.url = body.url, !.job_id = uuid4,
                              !.format_opts = FormatOpts(body.type, body.format_id)]
    /\ UNCHANGED <<now, files>>
    /\ UNCHANGED <<workerVars, sweeperVars, pollVars, configVars>>

\* faulty variant: the Thread object is built and start() is never called
StartDownloadLaunch_NoStart ==
    /\ req.pc = "created"
    /\ req' = [req EXCEPT !.pc = "started"]
    /\ UNCHANGED <<nextId, now, files>>
    /\ UNCHANGED <<workerVars, sweeperVars, pollVars, configVars>>
    /\ jobsUnchanged

\* thread.start()
StartDownloadLaunch ==
    /\ req.pc = "created"
    /\ wpc' = [wpc EXCEPT ![req.job_id] = "config"]
    /\ args' = [args EXCEPT ![req.job_id] = req.format_opts]
    /\ req' = [req EXCEPT !.pc = "started"]
    /\ UNCHANGED <<nextId, now, files, nEvents, raised, calls, info>>
    /\ UNCHANGED <<sweeperVars, pollVars, configVars>>
    /\ jobsUnchanged

\* return jsonify({'job_id': job_id})
StartDownloadReturn ==
    /\ req.pc = "started"
    /\ req' = [IdleReq EXCEPT !.url = req.url, !.code = 200, !.job_id = req.job_id]
    /\ UNCHANGED <<nextId, now, files>>
    /\ UNCHANGED <<workerVars, sweeperVars, pollVars, configVars>>
    /\ jobsUnchanged

\* ----------------------------------------------------- progress hook
\* the events the collaborator hands to a progress hook
Events ==
    {[status |-> "downloading", percent |-> p] : p \in PercentStrs}
        \cup {[status |-> "finished", percent |-> None],
              [status |-> "error", percent |-> None]}

\* faulty variant: the closure reads the id of the latest job instead of its own
progress_hook_LateBinding(job_id) == Uuid[nextId]

\* progress_hook(job_id): the job id the returned closure writes to
progress_hook(job_id) == job_id

\* d.get('_percent_str', '0%').replace('%', '')
PercentOf(d) == Replace(IF d.percent = None THEN <<"0", "%">> ELSE d.percent, "%")

\* faulty variant: a sentinel instead of the 0 of a failed parse
ProgressOf_Sentinel(p) == IF ParseFloat(p).ok THEN ParseFloat(p).val ELSE 0 - 1

\* try: progress = float(p)  except: progress = 0
ProgressOf(p) == IF ParseFloat(p).ok THEN ParseFloat(p).val ELSE 0

\* hook(d)
hook(job_id, d) ==
    IF d.status = "downloading"
    THEN update_job_status(job_id, "downloading",
                           <<"Downloading... ">> \o PercentOf(d) \o <<"%">>,
                           ProgressOf(PercentOf(d)), None)
    ELSE IF d.status = "finished"
    THEN update_job_status(job_id, "processing", <<"Processing with ffmpeg...">>,
                           Pct(HUNDRED), None)
    ELSE jobsUnchanged

\* ------------------------------------------------------------ worker
\* str(e) of the exception the collaborator raises
Failure == "ExtractionFailure"

\* faulty variant: the handler records the error and runs the task again
except_handler_Retry(job_id, e) ==
    /\ update_job_status(job_id, "error", <<"Error: ", e>>, 0, None)
    /\ wpc' = [wpc EXCEPT ![job_id] = "config"]
    /\ info' = [info EXCEPT ![job_id] = NoInfo]
    /\ args' = args

\* the exception handler of download_task: the 'error' record, and the
\* thread ends
except_handler(job_id, e) ==
    /\ update_job_status(job_id, "error", <<"Error: ", e>>, 0, None)
    /\ wpc' = [wpc EXCEPT ![job_id] = "done"]
    /\ info' = [info EXCEPT ![job_id] = NoInfo]
    /\ args' = [args EXCEPT ![job_id] = NoArgs]

\* ydl_opts is built and YoutubeDL(ydl_opts) entered; extract_info is called
DownloadTaskConfig(j) ==
    /\ wpc[j] = "config"
    /\ wpc' = [wpc EXCEPT ![j] = "extract"]
    /\ calls' = [calls EXCEPT ![j] = @ + 1]
    /\ UNCHANGED <<args, nEvents, raised, info, now, files>>
    /\ UNCHANGED <<dispatcherVars, sweeperVars, pollVars, configVars>>
    /\ jobsUnchanged

\* building the configuration or the collaborator object raises
DownloadTaskConfigRaises(j) ==
    /\ wpc[j] = "config"
    /\ raised' = [raised EXCEPT ![j] = @ + 1]
    /\ except_handler(j, Failure)
    /\ UNCHANGED <<nEvents, calls, now, files>>
    /\ UNCHANGED <<dispatcherVars, sweeperVars, pollVars, configVars>>

\* inside extract_info the collaborator calls the progress hook
ProgressEvent(j, d) ==
    /\ wpc[j] = "extract"
    /\ Sum(nEvents, JobIds) < MaxEvents
    /\ nEvents' = IF d.status \in {"downloading", "finished"}
                  THEN [nEvents EXCEPT ![j] = @ + 1] ELSE nEvents
    /\ hook(progress_hook(j), d)
    /\ UNCHANGED <<wpc, args, raised, calls, info, now, files>>
    /\ UNCHANGED <<dispatcherVars, sweeperVars, pollVars, configVars>>

\* the file the collaborator leaves in the storage directory: the
\* prepared name, with the extension of the audio post-processor when one ran
ArtifactPath(job_id, inf, format_opts) ==
    IF format_opts.is_audio
    THEN splitext0(prepare_filename(job_id, inf)) \o <<".", "mp3">>
    ELSE prepare_filename(job_id, inf)

\* extract_info(url, download=True) returns: the file is on disk
ExtractInfoReturns(j, title, ext) ==
    /\ wpc[j] = "extract"
    /\ wpc' = [wpc EXCEPT ![j] = "filename"]
    /\ info' = [info EXCEPT ![j] = [title |-> title, ext |-> ext]]
    /\ files' = files \cup {ArtifactPath(j, [title |-> title, ext |-> ext], args[j])}
    /\ UNCHANGED <<args, nEvents, raised, calls, now>>
    /\ UNCHANGED <<dispatcherVars, sweeperVars, pollVars, configVars>>
    /\ jobsUnchanged

\* extract_info raises
ExtractInfoRaises(j) ==
    /\ wpc[j] = "extract"
    /\ raised' = [raised EXCEPT ![j] = @ + 1]
    /\ except_handler(j, Failure)
    /\ UNCHANGED <<nEvents, calls, now, files>>
    /\ UNCHANGED <<dispatcherVars, sweeperVars, pollVars, configVars>>

\* filename = ydl.prepare_filename(info), the '.mp3' of an audio job
ResolvedFilename(job_id, inf, format_opts) ==
    LET filename == prepare_filename(job_id, inf)
    IN  IF format_opts.is_audio THEN splitext0(filename) \o <<".", "mp3">> ELSE filename

\* faulty variant: 'completed' is written without the filename
DownloadTaskComplete_NoFilename(j) ==
    /\ wpc[j] = "filename"
    /\ update_job_status(j, "completed", <<"Finished!">>, Pct(HUNDRED), None)
    /\ wpc' = [wpc EXCEPT ![j] = "done"]
    /\ info' = [info EXCEPT ![j] = NoInfo]
    /\ args' = [args EXCEPT ![j] = NoArgs]
    /\ UNCHANGED <<nEvents, raised, calls, now, files>>
    /\ UNCHANGED <<dispatcherVars, sweeperVars, pollVars, configVars>>

\* faulty variant: 'completed' is written while the thread is still inside the try
\* block, with a call that may raise ahead of it
DownloadTaskComplete_InsideTry(j) ==
    /\ wpc[j] = "filename"
    /\ jobs[j].status # "completed"
    /\ update_job_status(j, "completed", <<"Finished!">>, Pct(HUNDRED),
                         basename(prepare_filename(j, info[j])))
    /\ UNCHANGED <<wpc, args, info, nEvents, raised, calls, now, files>>
    /\ UNCHANGED <<dispatcherVars, sweeperVars, pollVars, configVars>>

\* prepare_filename returns and the 'completed' record is written.  The
\* with block is left right after the write; the collaborator's close()
\* is taken not to raise, so the thread ends here.
DownloadTaskComplete(j) ==
    /\ wpc[j] = "filename"
    /\ update_job_status(j, "completed", <<"Finished!">>, Pct(HUNDRED),
                         basename(ResolvedFilename(j, info[j], args[j])))
    /\ wpc' = [wpc EXCEPT ![j] = "done"]
    /\ info' = [info EXCEPT ![j] = NoInfo]
    /\ args' = [args EXCEPT ![j] = NoArgs]
    /\ UNCHANGED <<nEvents, raised, calls, now, files>>
    /\ UNCHANGED <<dispatcherVars, sweeperVars, pollVars, configVars>>

\* prepare_filename raises
PrepareFilenameRaises(j) ==
    /\ wpc[j] = "filename"
    /\ raised' = [raised EXCEPT ![j] = @ + 1]
    /\ except_handler(j, Failure)
    /\ UNCHANGED <<nEvents, calls, now, files>>
    /\ UNCHANGED <<dispatcherVars, sweeperVars, pollVars, configVars>>

\* ------------------------------------------------------------ status
\* faulty variant: a read stamps the record
get_status_Touch(job_id) == [jobs[job_id] EXCEPT !.timestamp = now]

\* get_status: jobs.get(job_id), the record as it is or the 404 (NoJob)
get_status(job_id) == jobs[job_id]

\* a client polls; what it saw is kept from its first terminal record on
GetStatus(j) ==
    /\ IF watch.job_id = ""
       THEN /\ get_status(j).status \in Terminal
            /\ watch' = [job_id |-> j, first |-> get_status(j), last |-> get_status(j)]
       ELSE /\ watch.job_id = j
            /\ watch' = [watch EXCEPT !.last = get_status(j)]
    /\ UNCHANGED <<dl, now, files>>
    /\ UNCHANGED <<dispatcherVars, workerVars, sweeperVars, configVars>>
    /\ jobsUnchanged

\* ----------------------------------------------------------- formats
\* the resolutions get_formats keeps
Resolutions == {360, 480, 720, 1080, 1440, 2160}

\* f.get('vcodec') != 'none', and res and res in [360, ..., 2160]
Wanted(f) == f.vcodec # "none" /\ f.height # 0 /\ f.height \in Resolutions

\* the entry appended to formats (note and filesize are carried along
\* untouched and left out)
FormatEntry(f) ==
    [id |-> f.format_id, ext |-> f.ext, quality |-> ToStr(f.height) \o <<"p">>,
     has_audio |-> f.acodec # "none"]

RECURSIVE Collect(_)
Collect(fs) ==
    IF fs = <<>> THEN <<>>
    ELSE IF Wanted(Head(fs)) THEN <<FormatEntry(Head(fs))>> \o Collect(Tail(fs))
    ELSE Collect(Tail(fs))

\* key=lambda x: int(x['quality'].replace('p', ''))
QualityKey(x) == IntVal(Replace(x.quality, "p"))

\* where a stable descending sort puts x among the sorted entries: behind
\* every entry whose key is not smaller
InsertDesc(sorted, x) ==
    LET n == Cardinality({i \in 1..Len(sorted) : QualityKey(sorted[i]) >= QualityKey(x)})
    IN  SubSeq(sorted, 1, n) \o <<x>> \o SubSeq(sorted, n + 1, Len(sorted))

\* formats.sort(key=..., reverse=True)
RECURSIVE SortDesc(_)
SortDesc(formats) ==
    IF formats = <<>> THEN <<>>
    ELSE InsertDesc(SortDesc(SubSeq(formats, 1, Len(formats) - 1)), formats[Len(formats)])

\* the index in unique_formats of the entry of quality q, 0 when q has not
\* been seen (seen_quality[q] is that entry)
SeenAt(unique_formats, q) ==
    IF \E i \in 1..Len(unique_formats) : unique_formats[i].quality = q
    THEN CHOOSE i \in 1..Len(unique_formats) : unique_formats[i].quality = q
    ELSE 0

\* faulty variant: the first entry of a quality is kept whatever follows
RECURSIVE Deduplicate_FirstSeen(_, _)
Deduplicate_FirstSeen(formats, unique_formats) ==
    IF formats = <<>> THEN unique_formats
    ELSE IF SeenAt(unique_formats, Head(formats).quality) = 0
         THEN Deduplicate_FirstSeen(Tail(formats), Append(unique_formats, Head(formats)))
         ELSE Deduplicate_FirstSeen(Tail(formats), unique_formats)

\* the deduplication loop: the first entry of a quality is kept, and
\* replaced by a later one that has audio when it has none
RECURSIVE Deduplicate(_, _)
Deduplicate(formats, unique_formats) ==
    IF formats = <<>> THEN unique_formats
    ELSE LET f   == Head(formats)
             idx == SeenAt(unique_formats, f.quality)
         IN  IF idx = 0
             THEN Deduplicate(Tail(formats), Append(unique_formats, f))
             ELSE IF f.has_audio /\ ~unique_formats[idx].has_audio
             THEN Deduplicate(Tail(formats), [unique_formats EXCEPT ![idx] = f])
             ELSE Deduplicate(Tail(formats), unique_formats)

\* an entry of the response's 'formats'
ResponseEntry(f) ==
    [id |-> f.id, ext |-> IF ~f.has_audio THEN "mp4" ELSE f.ext, quality |-> f.quality,
     note |-> IF f.has_audio THEN "Video + Audio" ELSE "HD (Video Only)",
     needs_merge |-> ~f.has_audio]

\* the 'formats' get_formats returns for info['formats'] = fs
get_formats(fs) ==
    LET unique_formats == Deduplicate(SortDesc(Collect(fs)), <<>>)
    IN  [i \in 1..Len(unique_formats) |-> ResponseEntry(unique_formats[i])]

storeVars == <<jobs, order, writes, now, files, dispatcherVars, workerVars,
               sweeperVars, pollVars>>

\* get_formats, the 400 of an empty or missing url
GetFormatsReject(url) ==
    /\ NotUrl(url)
    /\ formats_resp' = [code |-> 400, formats |-> <<>>]
    /\ UNCHANGED <<cookies, info_formats, ydl_opts, storeVars>>

\* get_formats with a url: extract_info(url, download=False) returns
GetFormats ==
    /\ formats_resp' = [code |-> 200, formats |-> get_formats(info_formats)]
    /\ UNCHANGED <<cookies, info_formats, ydl_opts, storeVars>>

\* get_formats with a url: the collaborator raises, the 500
GetFormatsRaises ==
    /\ formats_resp' = [code |-> 500, formats |-> <<>>]
    /\ UNCHANGED <<cookies, info_formats, ydl_opts, storeVars>>

\* ------------------------------------------------------ configuration
\* the ydl_opts of download_task (extractor_args and http_headers are
\* constants and left out)
download_task_opts(job_id, format_opts) ==
    [outtmpl |-> DOWNLOAD_FOLDER \o <<"/", job_id, "_%(title)s.%(ext)s">>,
     progress_hooks |-> <<progress_hook(job_id)>>,
     format |-> format_opts.format_id,
     nocheckcertificate |-> TRUE,
     quiet |-> FALSE,
     no_warnings |-> FALSE,
     cookiefile |-> IF cookies THEN <<"cookies.txt">> ELSE None,
     postprocessors |-> format_opts.postprocessors]

\* a download_task builds its ydl_opts
BuildYdlOpts(j, body) ==
    /\ ~NotUrl(body.url)
    /\ ydl_opts' = download_task_opts(j, FormatOpts(body.type, body.format_id))
    /\ UNCHANGED <<cookies, info_formats, formats_resp, storeVars>>

\* -------------------------------------------------------------- file
\* send_from_directory(DOWNLOAD_FOLDER, filename): the file is sent, or the
\* 404 of a file that is not there
send_from_directory(directory, filename) ==
    LET path == directory \o <<"/">> \o filename
    IN  [ready |-> TRUE, code |-> IF path \in files THEN 200 ELSE 404, path |-> path]

\* faulty variant: only the presence of the record is tested
download_file_AnyStatus(job_id) ==
    LET job == jobs[job_id]
    IN  IF job = NoJob
        THEN [ready |-> FALSE, code |-> 404, path |-> None]
        ELSE send_from_directory(DOWNLOAD_FOLDER, job.filename)

\* download_file: the 404 of a job that is unknown or not 'completed',
\* else the file the record names.  ready tells the two 404s apart.
download_file(job_id) ==
    LET job == jobs[job_id]
    IN  IF job = NoJob \/ job.status # "completed"
        THEN [ready |-> FALSE, code |-> 404, path |-> None]
        ELSE send_from_directory(DOWNLOAD_FOLDER, job.filename)

\* a client asks for the file of a job
GetFile(j) ==
    /\ dl' = download_file(j)
    /\ UNCHANGED <<watch, now, files>>
    /\ UNCHANGED <<dispatcherVars, workerVars, sweeperVars, configVars>>
    /\ jobsUnchanged

\* ----------------------------------------------------------- cleanup
\* now - jobs[job_id]['timestamp'] > 3600
IsStale(t, record) == t - record.timestamp > RETENTION

\* a cycle begins: now = time.time() and the snapshot list(jobs.keys())
CleanupStart ==
    /\ spc = "sleep"
    /\ spc' = "loop"
    /\ s_now' = now
    /\ snap' = order
    /\ staleAtStart' = {<<order[i], jobs[order[i]].filename>> :
                          i \in {k \in 1..Len(order) : IsStale(now, jobs[order[k]])}}
    /\ UNCHANGED <<now, files>>
    /\ UNCHANGED <<dispatcherVars, workerVars, pollVars, configVars>>
    /\ jobsUnchanged

\* the age test of the next job id of the snapshot; the lookup of a key
\* that is gone raises KeyError, which ends the thread
CleanupCheck ==
    /\ spc = "loop"
    /\ snap # <<>>
    /\ IF jobs[Head(snap)] = NoJob
       THEN spc' = "dead" /\ snap' = snap
       ELSE IF IsStale(s_now, jobs[Head(snap)])
       THEN spc' = "stale" /\ snap' = snap
       ELSE spc' = "loop" /\ snap' = Tail(snap)
    /\ UNCHANGED <<s_now, staleAtStart, now, files>>
    /\ UNCHANGED <<dispatcherVars, workerVars, pollVars, configVars>>
    /\ jobsUnchanged

\* faulty variant: the file is looked up by its bare name, outside DOWNLOAD_FOLDER,
\* where it does not exist
CleanupRemoveFile_BareName ==
    /\ spc = "stale"
    /\ IF jobs[Head(snap)] = NoJob
       THEN spc' = "dead" /\ files' = files
       ELSE /\ spc' = "del"
            /\ files' = IF Truthy(jobs[Head(snap)].filename)
                        THEN files \ {jobs[Head(snap)].filename}
                        ELSE files
    /\ UNCHANGED <<s_now, snap, staleAtStart, now>>
    /\ UNCHANGED <<dispatcherVars, workerVars, pollVars, configVars>>
    /\ jobsUnchanged

\* filename = jobs[job_id].get('filename'); the file is removed if it
\* exists.  No other thread removes files, so os.remove of a file that
\* exists succeeds and the except branch is not taken.
CleanupRemoveFile ==
    /\ spc = "stale"
    /\ IF jobs[Head(snap)] = NoJob
       THEN spc' = "dead" /\ files' = files
       ELSE /\ spc' = "del"
            /\ files' = IF Truthy(jobs[Head(snap)].filename)
                        THEN files \ {DOWNLOAD_FOLDER \o <<"/">> \o jobs[Head(snap)].filename}
                        ELSE files
    /\ UNCHANGED <<s_now, snap, staleAtStart, now>>
    /\ UNCHANGED <<dispatcherVars, workerVars, pollVars, configVars>>
    /\ jobsUnchanged

\* faulty variant: the loop runs over the dict itself, and the step after a del
\* raises RuntimeError (dictionary changed size during iteration)
CleanupDelete_LiveIteration ==
    /\ spc = "del"
    /\ jobs' = [jobs EXCEPT ![Head(snap)] = NoJob]
    /\ order' = SelectSeq(order, LAMBDA k : k # Head(snap))
    /\ snap' = Tail(snap)
    /\ spc' = "dead"
    /\ UNCHANGED <<writes, s_now, staleAtStart, now, files>>
    /\ UNCHANGED <<dispatcherVars, workerVars, pollVars, configVars>>

\* del jobs[job_id]
CleanupDelete ==
    /\ spc = "del"
    /\ IF jobs[Head(snap)] = NoJob
       THEN spc' = "dead" /\ UNCHANGED <<jobs, order, snap>>
       ELSE /\ jobs' = [jobs EXCEPT ![Head(snap)] = NoJob]
            /\ order' = SelectSeq(order, LAMBDA k : k # Head(snap))
            /\ snap' = Tail(snap)
            /\ spc' = "loop"
    /\ UNCHANGED <<writes, s_now, staleAtStart, now, files>>
    /\ UNCHANGED <<dispatcherVars, workerVars, pollVars, configVars>>

\* the snapshot is exhausted: time.sleep(300)
CleanupSleep ==
    /\ spc = "loop"
    /\ snap = <<>>
    /\ spc' = "sleep"
    /\ s_now' = 0
    /\ staleAtStart' = {}
    /\ UNCHANGED <<jobs, order, writes, snap, now, files>>
    /\ UNCHANGED <<dispatcherVars, workerVars, pollVars, configVars>>

\* ------------------------------------------------------------- clock
\* The clock moves in steps longer than the retention period.  A request
\* handler runs from its first statement to its return within one step.
Tick ==
    /\ now < MaxTicks * TickSeconds
    /\ req.pc = "idle"
    /\ now' = now + TickSeconds
    /\ UNCHANGED files
    /\ UNCHANGED <<dispatcherVars, workerVars, sweeperVars, pollVars, configVars>>
    /\ jobsUnchanged

\* ------------------------------------------------------ specification
Dispatcher ==
    \/ \E body \in Bodies : StartDownloadReject(body)
    \/ \E body \in Bodies : StartDownloadCreate(body)
    \/ StartDownloadLaunch
    \/ StartDownloadReturn

Worker(j) ==
    \/ DownloadTaskConfig(j)
    \/ DownloadTaskConfigRaises(j)
    \/ \E d \in Events : ProgressEvent(j, d)
    \/ \E title \in Titles, ext \in Exts : ExtractInfoReturns(j, title, ext)
    \/ ExtractInfoRaises(j)
    \/ DownloadTaskComplete(j)
    \/ PrepareFilenameRaises(j)

Cleanup ==
    \/ CleanupStart
    \/ CleanupCheck
    \/ CleanupRemoveFile
    \/ CleanupDelete
    \/ CleanupSleep

Next ==
    \/ Dispatcher
    \/ \E j \in JobIds : Worker(j)
    \/ Cleanup
    \/ \E j \in JobIds : GetStatus(j)
    \/ \E j \in JobIds : GetFile(j)
    \/ Tick

Spec == Init /\ [][Next]_vars

\* The dispatcher and the worker threads alone, under the clock.  The
\* cleanup thread and get_status neither write nor read what a worker's
\* steps depend on (wpc, args, info, nEvents), so leaving them out takes
\* no worker behaviour away.
WorkerNext ==
    \/ Dispatcher
    \/ \E j \in JobIds : Worker(j)
    \/ Tick

\* A started thread is scheduled, and the collaborator call it sits in
\* returns or raises; the request handler reaches thread.start().
Fairness ==
    /\ WF_vars(StartDownloadLaunch)
    /\ \A j \in JobIds : WF_vars(Worker(j))

FairSpec == Init /\ [][WorkerNext]_vars /\ Fairness

\* The cleanup thread among the dispatcher and the worker threads, under
\* the clock.  get_status and download_file only read the store.
SweeperNext ==
    \/ Dispatcher
    \/ \E j \in JobIds : Worker(j)
    \/ Cleanup
    \/ Tick

\* The daemon thread is scheduled, and time.sleep(300) returns.
SweeperFairness == WF_vars(Cleanup)

SweeperSpec == Init /\ [][SweeperNext]_vars /\ SweeperFairness

\* get_formats and the configuration of download_task on their own: what
\* they compute depends on their inputs and on cookies.txt only.
FunctionNext ==
    \/ \E url \in {"", MISSING} : GetFormatsReject(url)
    \/ GetFormats
    \/ GetFormatsRaises
    \/ \E j \in JobIds, body \in Bodies : BuildYdlOpts(j, body)

FunctionSpec == FunctionInit /\ [][FunctionNext]_vars

\* ------------------------------------------------------------ claims
Last(q) == q[Len(q)]

TerminalWritten(j) == writes[j] # <<>> /\ Last(writes[j]) \in Terminal

Count(q, x) == Cardinality({i \in 1..Len(q) : q[i] = x})

\* the files of the storage directory that carry the job's id
FilesOf(j) == {f \in files : f[Len(DOWNLOAD_FOLDER) + 2] = j}

PathOf(filename) == DOWNLOAD_FOLDER \o <<"/">> \o filename

\* C1: in every reachable state, every record of the store has a filename
\* that is set (non-empty) exactly when its status is 'completed'
C1_FilenameIffCompleted ==
    \A j \in JobIds :
        jobs[j] # NoJob => (Truthy(jobs[j].filename) <=> jobs[j].status = "completed")

C1_Witness ==
    \E j, k \in JobIds :
        /\ jobs[j].status = "completed" /\ Truthy(jobs[j].filename)
        /\ jobs[k].status = "error" /\ ~Truthy(jobs[k].filename)

C5_EveryJobTerminates ==
    \A j \in JobIds : (writes[j] # <<>>) ~> (wpc[j] = "done" /\ TerminalWritten(j))

C5_Witness ==
    \E j, k \in JobIds :
        /\ wpc[j] = "done" /\ Last(writes[j]) = "completed"
        /\ wpc[k] = "done" /\ Last(writes[k]) = "error"

\* C6: an exception raised in a worker's try block (configuration,
\* extract_info, prepare_filename) ends in exactly one 'error' write with no
\* filename, the thread ending normally; the job's caller still gets its 200,
\* and extract_info is called at most once per job
C6_FailureCaptured ==
    \A j \in JobIds :
        /\ calls[j] <= 1
        /\ raised[j] >= 1 =>
              /\ raised[j] = 1
              /\ wpc[j] = "done"
              /\ Count(writes[j], "error") = 1
              /\ Last(writes[j]) = "error"
              /\ jobs[j] # NoJob => jobs[j].status = "error" /\ jobs[j].filename = None
              /\ (req.pc = "idle" /\ req.job_id = j) => req.code = 200

C6_Witness ==
    \E j \in JobIds :
        /\ raised[j] = 1 /\ calls[j] = 1 /\ Len(writes[j]) > 2
        /\ jobs[j].status = "error"
        /\ req.pc = "idle" /\ req.job_id = j

\* C7: a start_download whose url is empty or missing answers 400 with no
\* job id, draws no uuid, leaves the store as it was and starts no thread;
\* a request that creates a job has a url
C7_EmptyUrlRejected ==
    /\ [](req.pc # "idle" => ~NotUrl(req.url))
    /\ []((NotUrl(req.url) /\ req.code # 0) => (req.code = 400 /\ req.job_id = ""))
    /\ [][(req.pc = "idle" /\ req'.pc = "idle" /\ req' # req) =>
            /\ NotUrl(req'.url)
            /\ req'.code = 400 /\ req'.job_id = ""
            /\ nextId' = nextId
            /\ jobs' = jobs /\ order' = order /\ writes' = writes
            /\ wpc' = wpc]_vars

C7_Witness ==
    /\ req.pc = "idle" /\ req.url = "" /\ req.code = 400
    /\ nextId = 1 /\ jobs[Uuid[1]].status = "downloading"

\* the thread of job a takes a step
WorkerStep(a) == wpc[a] # "none" /\ (wpc'[a] # wpc[a] \/ nEvents'[a] # nEvents[a])

\* C8: a record is written either by the dispatcher, once, when it creates
\* the job, or by a step of the job's own thread; and a step of the thread
\* of job a (its failure included) leaves every other job's record as it was
C8_SingleWriterIsolation ==
    [][\A a \in JobIds :
          /\ writes'[a] # writes[a] =>
                \/ writes[a] = <<>> /\ req.pc = "idle" /\ req'.pc = "created"
                      /\ req'.job_id = a
                \/ WorkerStep(a) /\ writes[a] # <<>>
          /\ WorkerStep(a) =>
                \A b \in JobIds \ {a} : jobs'[b] = jobs[b] /\ writes'[b] = writes[b]]_vars

C8_Witness ==
    \E a, b \in JobIds :
        /\ a # b
        /\ raised[a] = 1 /\ jobs[a].status = "error"
        /\ wpc[b] = "done" /\ jobs[b].status = "completed" /\ Len(writes[b]) > 2

\* C9: in every reachable state the progress of every record lies in
\* [0, 100], whatever percentage the collaborator reports
C9_ProgressInRange ==
    \A j \in JobIds :
        jobs[j] # NoJob => jobs[j].progress >= 0 /\ jobs[j].progress <= Pct(HUNDRED)

\* C10: a 'downloading' event whose percentage string float() rejects leaves
\* a record with status 'downloading' and progress 0, written by the hook,
\* and the thread goes on inside extract_info
C10_UnparsableIsZero ==
    [][\A j \in JobIds : \A d \in Events :
          (ProgressEvent(j, d) /\ d.status = "downloading"
              /\ ~ParseFloat(PercentOf(d)).ok) =>
              /\ jobs'[j].status = "downloading"
              /\ jobs'[j].progress = 0
              /\ writes'[j] = Append(writes[j], "downloading")
              /\ wpc'[j] = "extract"
              /\ raised'[j] = raised[j]]_vars

C10_Witness ==
    \E j \in JobIds :
        /\ jobs[j].status = "downloading"
        /\ jobs[j].text = <<"Downloading... ", "N", "/", "A", "%">>
        /\ jobs[j].progress = 0
        /\ wpc[j] = "filename"

\* C11: between two successive records that the hook writes while the
\* status is 'downloading', the progress does not decrease, whatever events
\* the collaborator emits
C11_ProgressMonotone ==
    [][\A j \in JobIds :
          (jobs[j].status = "downloading" /\ jobs'[j].status = "downloading") =>
              jobs'[j].progress >= jobs[j].progress]_vars

\* C13: start_download with a url writes the 'starting' record before it
\* starts the thread, and returns the job id without waiting for the thread:
\* a thread exists only for a job whose record has been written, 'starting'
\* is the first write of a job and the only one of its kind, the return is
\* enabled as soon as the thread is started, and at the return the store
\* holds a record for the id while the step itself touches neither the
\* store nor any thread
C13_StartingBeforeLaunch ==
    /\ [](\A j \in JobIds : wpc[j] # "none" => writes[j] # <<>>)
    /\ [](\A j \in JobIds :
            writes[j] # <<>> =>
                writes[j][1] = "starting" /\ Count(writes[j], "starting") = 1)
    /\ [](req.pc = "started" => ENABLED StartDownloadReturn)
    /\ [][(req.pc = "started" /\ req'.pc = "idle") =>
            /\ req'.code = 200 /\ req'.job_id = req.job_id
            /\ jobs[req.job_id] # NoJob
            /\ jobs' = jobs /\ writes' = writes /\ wpc' = wpc]_vars

\* the id has been returned and the job's thread has not taken a step yet
C13_Witness ==
    \E j \in JobIds :
        /\ req.pc = "idle" /\ req.code = 200 /\ req.job_id = j
        /\ wpc[j] = "config"
        /\ jobs[j].status = "starting"

\* C12: download_file answers 404 whenever the job has no record or a
\* record whose status is not 'completed'; it sends a file only for a
\* 'completed' record, the file that record names in DOWNLOAD_FOLDER; and
\* it changes neither the store nor the storage directory
C12_FileOnlyWhenCompleted ==
    [][\A j \in JobIds :
          GetFile(j) =>
              /\ (jobs[j] = NoJob \/ jobs[j].status # "completed") =>
                    (dl'.code = 404 /\ ~dl'.ready /\ dl'.path = None)
              /\ dl'.code = 200 =>
                    (jobs[j].status = "completed" /\ dl'.path = PathOf(jobs[j].filename))
              /\ jobs' = jobs /\ order' = order /\ files' = files]_vars

\* a file has been sent for a 'completed' job while the other job, not
\* 'completed', is in the store
C12_Witness ==
    \E j, k \in JobIds :
        /\ dl.code = 200
        /\ jobs[j].status = "completed" /\ dl.path = PathOf(jobs[j].filename)
        /\ jobs[k] # NoJob /\ jobs[k].status # "completed"

\* C19: whenever download_file has passed its status check, the file the
\* record names is in DOWNLOAD_FOLDER and is sent, whatever the cleanup
\* thread does in between
C19_FileExistsWhenReady == dl.ready => dl.code = 200

\* C17: the record that a step of the cleanup thread removes from the
\* store has a timestamp more than 3600 s old at that step, also when the
\* job's thread writes between the age test and the removal
C17_RemovesOnlyStale ==
    [][\A j \in JobIds :
          (jobs[j] # NoJob /\ jobs'[j] = NoJob) => IsStale(now, jobs[j])]_vars

\* C18: in every reachable state where the thread of job j has ended and a
\* file written for j is in DOWNLOAD_FOLDER, the store holds a record for j
\* whose filename names that file
C18_NoOrphanArtifact ==
    \A j \in JobIds :
        wpc[j] = "done" =>
            \A f \in FilesOf(j) : jobs[j] # NoJob /\ PathOf(jobs[j].filename) = f

\* C20: once the cleanup thread has removed the record of job j, the store
\* never holds a record for j again, also when j's thread was still running
C20_EvictionFinal ==
    [][\A j \in JobIds :
          (writes[j] # <<>> /\ jobs[j] = NoJob) => jobs'[j] = NoJob]_vars

\* C15: the cleanup thread walks a snapshot of the keys taken when the
\* cycle begins, which only shrinks from its head whatever is written to
\* the store meanwhile; every key it is about to look up is in the store,
\* so no lookup fails and the thread never ends; and every cycle comes to
\* its sleep and is followed by another cycle
C15_SweeperNeverStops ==
    /\ [](spc # "dead")
    /\ []((spc \in {"stale", "del"} \/ (spc = "loop" /\ snap # <<>>)) =>
            jobs[Head(snap)] # NoJob)
    /\ [][/\ (spc = "sleep" /\ spc' = "loop") => snap' = order
          /\ (spc # "sleep") =>
                (snap' = snap \/ (snap # <<>> /\ snap' = Tail(snap)))]_vars
    /\ (spc = "loop") ~> (spc = "sleep")
    /\ (spc = "sleep") ~> (spc = "loop")

\* in the middle of a cycle, after the age test of a job: that job's thread
\* has written its record since, and the dispatcher has added a job that
\* the snapshot does not hold
C15_Witness ==
    /\ spc = "stale"
    /\ jobs[Head(snap)].timestamp >= s_now
    /\ \E j \in JobIds :
          jobs[j] # NoJob /\ \A i \in 1..Len(snap) : snap[i] # j

\* the input formats that get_formats keeps in the bucket of height h
InBucket(h) == {i \in 1..Len(info_formats) : Wanted(info_formats[i]) /\ info_formats[i].height = h}

\* C14: whatever formats the collaborator lists, the list get_formats
\* returns has at most one entry per resolution among 360, 480, 720, 1080,
\* 1440 and 2160, none of another resolution, in descending order of
\* resolution, and the entry of a resolution for which an input format
\* with audio exists is one with audio
C14_FormatsDeduplicated ==
    formats_resp.code = 200 =>
        LET out == formats_resp.formats
            res(i) == IntVal(Replace(out[i].quality, "p"))
        IN  /\ \A i \in 1..Len(out) : res(i) \in Resolutions
            /\ \A i, k \in 1..Len(out) : i < k => res(i) > res(k)
            /\ \A i \in 1..Len(out) :
                   /\ \E n \in InBucket(res(i)) : info_formats[n].format_id = out[i].id
                   /\ (\E n \in InBucket(res(i)) : info_formats[n].acodec # "none") =>
                         /\ ~out[i].needs_merge
                         /\ \E n \in InBucket(res(i)) :
                               /\ info_formats[n].format_id = out[i].id
                               /\ info_formats[n].acodec # "none"

\* 720p video only ahead of 720p with audio, and a 144p format: one 720p
\* entry, the one with audio
C14_Witness ==
    /\ formats_resp.code = 200
    /\ Len(info_formats) = 3
    /\ info_formats[1].format_id = "247"
    /\ info_formats[2].format_id = "22"
    /\ info_formats[3].format_id = "160"
    /\ Len(formats_resp.formats) = 1
    /\ formats_resp.formats[1].id = "22"

\* C16: the ydl_opts of download_task hold the key 'cookiefile' exactly
\* when cookies.txt exists, and then with the value 'cookies.txt'; the key
\* is never there with the value None
C16_CookieKeyOmitted ==
    "outtmpl" \in DOMAIN ydl_opts =>
        /\ "cookiefile" \in DOMAIN ydl_opts <=> cookies
        /\ "cookiefile" \in DOMAIN ydl_opts => ydl_opts.cookiefile = <<"cookies.txt">>
====
